---- MODULE Spec2Model ----
(***************************************************************************)
(* Bus trip planner: the connectivity graph (services/graph_builder.py),   *)
(* the transfer-penalised search (services/path_finder.py), the oracle     *)
(* output parsing (services/fol_engine.py) and the request handler         *)
(* plan_trip (main.py).                                                    *)
(*                                                                         *)
(* Encoding of Python values:                                              *)
(*   - a stop id is a one-character digit string "1".."9", written as the  *)
(*     integer 1..9; Python's string order on such ids is the integer      *)
(*     order;                                                              *)
(*   - a request identifier or a stop name is a sequence of character      *)
(*     codes: 0 is a blank, 1..9 the digits, 11.. lower-case letters and   *)
(*     21.. the matching upper-case letters;                               *)
(*   - a route id, a shape id and a pattern key are strings cut at every   *)
(*     '_': the sequence of their '_'-separated pieces;                    *)
(*   - a dict is the sequence of its (key, value) entries in insertion     *)
(*     order; a stop id of 0 is the empty string or None.                  *)
(***************************************************************************)
EXTENDS Integers, Sequences, FiniteSets, TLC

\* ------------------------------------------------------------------ bounds
NStops == 3       \* stops of the feed are 1..NStops
MaxShapes == 2    \* shapes in one feed
MaxTrips == 2     \* trips in one feed without shapes
MaxFacts == 2     \* at(stop, step) facts in one Prover9 output

\* None where a string is expected (no string holds the character -1)
NoneStr == <<-1>>

\* Optional[List[Dict]]: None, or a list (the empty list is not None)
NonePath == [some |-> FALSE, path |-> <<>>]

SomePath(p) == [some |-> TRUE, path |-> p]

\* ------------------------------------------------------------- sequences
Range(s) == {s[i] : i \in 1..Len(s)}

Last(s) == s[Len(s)]

Min(a, b) == IF a < b THEN a ELSE b

\* index of the first element equal to x (0 when absent): list.index
IndexOf(s, x) ==
    IF \E i \in 1..Len(s) : s[i] = x
    THEN CHOOSE i \in 1..Len(s) : s[i] = x /\ \A j \in 1..(i-1) : s[j] # x
    ELSE 0

\* all sequences over S of length at most n
SeqsUpTo(S, n) == UNION {[1..k -> S] : k \in 0..n}

\* ---------------------------------------------------------------- strings
\* str.lower() on one character
LowerChar(c) == IF c > 20 THEN c - 10 ELSE c

Lower(s) == [i \in 1..Len(s) |-> LowerChar(s[i])]

\* str.strip(): drop the leading and trailing blanks
Strip(s) ==
    LET nonblank == {i \in 1..Len(s) : s[i] # 0}
    IN IF nonblank = {} THEN <<>>
       ELSE LET lo == CHOOSE i \in nonblank : \A j \in nonblank : i <= j
                hi == CHOOSE i \in nonblank : \A j \in nonblank : j <= i
            IN SubSeq(s, lo, hi)

\* a in b, for strings: a is a contiguous part of b
Contains(a, b) ==
    \E k \in 0..(Len(b) - Len(a)) : SubSeq(b, k + 1, k + Len(a)) = a

\* the string of a stop id
IdStr(k) == <<k>>

\* ------------------------------------------------------------------ dicts
\* d[key] = val on an insertion-ordered dict
DictPut(d, key, val) ==
    IF \E i \in 1..Len(d) : d[i].key = key
    THEN [i \in 1..Len(d) |-> IF d[i].key = key THEN [key |-> key, val |-> val] ELSE d[i]]
    ELSE Append(d, [key |-> key, val |-> val])

DictHas(d, key) == \E i \in 1..Len(d) : d[i].key = key

DictGet(d, key) == d[CHOOSE i \in 1..Len(d) : d[i].key = key].val

DictKeys(d) == {d[i].key : i \in 1..Len(d)}

\* ---------------------------------------------------------- GraphBuilder
\* GraphBuilder.__init__
NewBuilder ==
    [stops |-> <<>>, routes |-> <<>>, connections |-> <<>>,
     stop_name_to_id |-> <<>>, shapes |-> <<>>, route_patterns |-> <<>>,
     stop_neighbors |-> <<>>]

\* extract_direction_from_shape_id: (route base, direction)
extract_direction_from_shape_id(shape_id) ==
    IF Len(shape_id) >= 2
    THEN <<SubSeq(shape_id, 1, Len(shape_id) - 1), Last(shape_id)>>
    ELSE <<shape_id, 0>>

\* f"{route_id}_{direction}"
PatternKey(route_id, direction) == Append(route_id, direction)

\* pattern_key.rsplit('_', 1)[0]
RouteOfPatternKey(pattern_key) ==
    IF Len(pattern_key) >= 2 THEN SubSeq(pattern_key, 1, Len(pattern_key) - 1)
    ELSE pattern_key

\* stop.get("stop_id", stop.get("id", "")); 0 stands for the empty id
GetStopId(stop) ==
    IF "stop_id" \in DOMAIN stop THEN stop.stop_id
    ELSE IF "id" \in DOMAIN stop THEN stop.id ELSE 0

\* stop.get("stop_name", stop.get("name", default))
GetStopName(stop, default) ==
    IF "stop_name" \in DOMAIN stop THEN stop.stop_name
    ELSE IF "name" \in DOMAIN stop THEN stop.name ELSE default

\* route.get("route_id", route.get("id", ""))
GetRouteId(route) ==
    IF "route_id" \in DOMAIN route THEN route.route_id
    ELSE IF "id" \in DOMAIN route THEN route.id ELSE <<>>

\* build_graph, "Index stops": stops, stop_neighbors and the name mapping
RECURSIVE IndexStops(_, _)
IndexStops(gb, stops) ==
    IF stops = <<>> THEN gb
    ELSE IF GetStopId(Head(stops)) = 0 THEN IndexStops(gb, Tail(stops))   \* "if not stop_id: continue"
    ELSE LET stop == Head(stops)
             stop_id == GetStopId(stop)
             name == Strip(Lower(GetStopName(stop, <<>>)))
             g1 == [gb EXCEPT !.stops = DictPut(@, stop_id, stop),
                              !.stop_neighbors = DictPut(@, stop_id, <<>>)]
             g2 == IF name # <<>>
                   THEN [g1 EXCEPT !.stop_name_to_id = DictPut(@, name, stop_id)]
                   ELSE g1
         IN IndexStops(g2, Tail(stops))

\* build_graph, "Index routes"
RECURSIVE IndexRoutes(_, _)
IndexRoutes(gb, routes) ==
    IF routes = <<>> THEN gb
    ELSE LET route == Head(routes)
         IN IndexRoutes(
                IF GetRouteId(route) = <<>> THEN gb
                ELSE [gb EXCEPT !.routes = DictPut(@, GetRouteId(route), route)],
                Tail(routes))

\* build_graph, "Index shapes by shape_id": one entry per shape id, holding the
\* stops find_stops_along_shape matches to its points
RECURSIVE IndexShapes(_, _)
IndexShapes(gb, shapes) ==
    IF shapes = <<>> THEN gb
    ELSE IndexShapes([gb EXCEPT !.shapes = DictPut(@, Head(shapes).sid, Head(shapes).stops)],
                     Tail(shapes))

\* the trips loop of _build_connections_from_shapes_with_direction: shape_to_route
RECURSIVE ShapeToRoute(_, _, _)
ShapeToRoute(gb, trips, acc) ==
    IF trips = <<>> THEN acc
    ELSE LET trip == Head(trips)
         IN ShapeToRoute(gb, Tail(trips),
                IF trip.route_id # <<>> /\ trip.shape_id # <<>> /\ DictHas(gb.shapes, trip.shape_id)
                THEN DictPut(acc, trip.shape_id, trip.route_id)
                ELSE acc)

\* one connection record of the shape-based build
ShapeConn(from, to, route_id, pattern_key) ==
    [from |-> from, to |-> to, route |-> route_id, pattern |-> pattern_key]

\* the inner loop over consecutive stops: st = [conns, seen]
RECURSIVE AddPatternConns(_, _, _, _, _)
AddPatternConns(st, stops_on_route, i, route_id, pattern_key) ==
    IF i > Len(stops_on_route) - 1 THEN st
    ELSE LET conn_key == <<stops_on_route[i], stops_on_route[i + 1], pattern_key>>
             st2 == IF conn_key \notin st.seen
                    THEN [conns |-> Append(st.conns,
                                      ShapeConn(stops_on_route[i], stops_on_route[i + 1],
                                                route_id, pattern_key)),
                          seen |-> st.seen \cup {conn_key}]
                    ELSE st
         IN AddPatternConns(st2, stops_on_route, i + 1, route_id, pattern_key)

\* find_stops_along_shape: the shape's points are given as the stops lying within
\* the threshold of them, in the order of their nearest points; only indexed
\* stops are looked at
find_stops_along_shape(gb, shape_points) ==
    SelectSeq(shape_points, LAMBDA stop_id : DictHas(gb.stops, stop_id))

\* the loop over self.shapes: st = [gb, seen]
RECURSIVE ProcessShapes(_, _, _)
ProcessShapes(st, k, shape_to_route) ==
    IF k > Len(st.gb.shapes) THEN st.gb
    ELSE LET shape_id == st.gb.shapes[k].key
             stops_on_route == find_stops_along_shape(st.gb, st.gb.shapes[k].val)
             skip == \/ ~DictHas(shape_to_route, shape_id)
                     \/ ~DictHas(st.gb.routes, DictGet(shape_to_route, shape_id))
                     \/ Len(stops_on_route) < 2
         IN IF skip THEN ProcessShapes(st, k + 1, shape_to_route)
            ELSE LET route_id == DictGet(shape_to_route, shape_id)
                     direction == extract_direction_from_shape_id(shape_id)[2]
                     pattern_key == PatternKey(route_id, direction)
                     r == AddPatternConns([conns |-> st.gb.connections, seen |-> st.seen],
                                          stops_on_route, 1, route_id, pattern_key)
                     g2 == [st.gb EXCEPT
                              !.route_patterns = DictPut(@, pattern_key, stops_on_route),
                              !.connections = r.conns]
                 IN ProcessShapes([gb |-> g2, seen |-> r.seen], k + 1, shape_to_route)

_build_connections_from_shapes_with_direction(gb, trips) ==
    ProcessShapes([gb |-> gb, seen |-> {}], 1, ShapeToRoute(gb, trips, <<>>))

\* one connection record of the stop-time fallback: it has no "pattern" key
TripConn(from, to, route_id) ==
    [from |-> from, to |-> to, route |-> route_id, pattern |-> NoneStr]

\* the inner loop of _build_connections_from_trips: st = [conns, seen]
RECURSIVE AddTripConns(_, _, _, _, _)
AddTripConns(st, gb, seq, i, route_id) ==
    IF i > Len(seq) - 1 THEN st
    ELSE LET conn_key == <<seq[i], seq[i + 1], route_id>>
             st2 == IF /\ DictHas(gb.stops, seq[i]) /\ DictHas(gb.stops, seq[i + 1])
                       /\ conn_key \notin st.seen
                    THEN [conns |-> Append(st.conns, TripConn(seq[i], seq[i + 1], route_id)),
                          seen |-> st.seen \cup {conn_key}]
                    ELSE st
         IN AddTripConns(st2, gb, seq, i + 1, route_id)

\* the loop over the trips that have stop times, each with its stop ids in
\* stop_sequence order: st = [conns, seen]
RECURSIVE ProcessTrips(_, _, _)
ProcessTrips(st, gb, trips) ==
    IF trips = <<>> THEN st.conns
    ELSE LET trip == Head(trips)
         IN IF trip.stop_times = <<>> \/ trip.route_id = <<>> \/ ~DictHas(gb.routes, trip.route_id)
            THEN ProcessTrips(st, gb, Tail(trips))
            ELSE ProcessTrips(AddTripConns(st, gb, trip.stop_times, 1, trip.route_id),
                              gb, Tail(trips))

_build_connections_from_trips(gb, trips) ==
    [gb EXCEPT !.connections = ProcessTrips([conns |-> gb.connections, seen |-> {}], gb, trips)]

\* _build_adjacency_list: every connection whose origin is an indexed stop is
\* appended to that stop's neighbour list
RECURSIVE AdjacencyLoop(_, _)
AdjacencyLoop(nb, conns) ==
    IF conns = <<>> THEN nb
    ELSE LET conn == Head(conns)
         IN AdjacencyLoop(
                IF DictHas(nb, conn.from)
                THEN DictPut(nb, conn.from,
                             Append(DictGet(nb, conn.from),
                                    [to |-> conn.to, route |-> conn.route,
                                     pattern |-> IF conn.pattern = NoneStr THEN <<>> ELSE conn.pattern]))
                ELSE nb,
                Tail(conns))

_build_adjacency_list(gb) ==
    [gb EXCEPT !.stop_neighbors = AdjacencyLoop(gb.stop_neighbors, gb.connections)]

\* whether the feed carries any stop time
HasStopTimes(trips) == \E i \in 1..Len(trips) : trips[i].stop_times # <<>>

\* the build that returns before indexing when there is nothing to connect
BuildGraphOnlyWithTrips(gb, feed) ==
    IF feed.trips # <<>> /\ (feed.shapes # <<>> \/ HasStopTimes(feed.trips))
    THEN LET g3 == IndexShapes(IndexRoutes(IndexStops(gb, feed.stops), feed.routes), feed.shapes)
         IN _build_adjacency_list(
                IF g3.shapes # <<>>
                THEN _build_connections_from_shapes_with_direction(g3, feed.trips)
                ELSE _build_connections_from_trips(g3, feed.trips))
    ELSE gb

\* build_graph(stops, routes, trips, stop_times, shapes)
build_graph(gb, feed) ==
    LET g1 == IndexStops(gb, feed.stops)
        g2 == IndexRoutes(g1, feed.routes)
        g3 == IndexShapes(g2, feed.shapes)
        g4 == IF feed.trips # <<>> /\ g3.shapes # <<>>
              THEN _build_connections_from_shapes_with_direction(g3, feed.trips)
              ELSE IF feed.trips # <<>> /\ HasStopTimes(feed.trips)
              THEN _build_connections_from_trips(g3, feed.trips)
              ELSE g3
    IN _build_adjacency_list(g4)

\* the lookup that tries the exact name before the id
ResolveNameFirst(gb, stop_identifier) ==
    LET normalized == Strip(Lower(stop_identifier))
    IN IF DictHas(gb.stop_name_to_id, normalized)
       THEN DictGet(gb.stop_name_to_id, normalized)
       ELSE IF \E i \in 1..Len(gb.stops) : IdStr(gb.stops[i].key) = stop_identifier
       THEN gb.stops[CHOOSE i \in 1..Len(gb.stops) : IdStr(gb.stops[i].key) = stop_identifier].key
       ELSE 0

\* resolve_stop: the stop id, or 0 for None
RECURSIVE PartialMatch(_, _, _)
PartialMatch(names, k, normalized) ==
    IF k > Len(names) THEN 0
    ELSE IF Contains(normalized, names[k].key) \/ Contains(names[k].key, normalized)
         THEN names[k].val
         ELSE PartialMatch(names, k + 1, normalized)

resolve_stop(gb, stop_identifier) ==
    IF \E i \in 1..Len(gb.stops) : IdStr(gb.stops[i].key) = stop_identifier
    THEN gb.stops[CHOOSE i \in 1..Len(gb.stops) : IdStr(gb.stops[i].key) = stop_identifier].key
    ELSE LET normalized == Strip(Lower(stop_identifier))
         IN IF DictHas(gb.stop_name_to_id, normalized)
            THEN DictGet(gb.stop_name_to_id, normalized)
            ELSE PartialMatch(gb.stop_name_to_id, 1, normalized)

\* can_reach_on_single_route: None, or the route info of the first pattern that
\* holds goal after start
NoRoute == [some |-> FALSE, route_id |-> <<>>, pattern |-> <<>>, stops_between |-> <<>>]

\* the scan without the direction check "goal_idx > start_idx"
RECURSIVE SingleRouteLoopAnyDirection(_, _, _, _)
SingleRouteLoopAnyDirection(gb, k, start, goal) ==
    IF k > Len(gb.route_patterns) THEN NoRoute
    ELSE LET pattern_key == gb.route_patterns[k].key
             stops == gb.route_patterns[k].val
             start_idx == IndexOf(stops, start)
             goal_idx == IndexOf(stops, goal)
             route_id == RouteOfPatternKey(pattern_key)
         IN IF /\ start_idx # 0 /\ goal_idx # 0
               /\ goal_idx # start_idx
               /\ DictHas(gb.routes, route_id)
            THEN [some |-> TRUE, route_id |-> route_id, pattern |-> pattern_key,
                  stops_between |-> SubSeq(stops, start_idx, goal_idx)]
            ELSE SingleRouteLoopAnyDirection(gb, k + 1, start, goal)

RECURSIVE SingleRouteLoop(_, _, _, _)
SingleRouteLoop(gb, k, start, goal) ==
    IF k > Len(gb.route_patterns) THEN NoRoute
    ELSE LET pattern_key == gb.route_patterns[k].key
             stops == gb.route_patterns[k].val
             start_idx == IndexOf(stops, start)
             goal_idx == IndexOf(stops, goal)
             route_id == RouteOfPatternKey(pattern_key)
         IN IF /\ start_idx # 0 /\ goal_idx # 0
               /\ goal_idx > start_idx
               /\ DictHas(gb.routes, route_id)
            THEN [some |-> TRUE, route_id |-> route_id, pattern |-> pattern_key,
                  stops_between |-> SubSeq(stops, start_idx, goal_idx)]
            ELSE SingleRouteLoop(gb, k + 1, start, goal)

can_reach_on_single_route(gb, start, goal) == SingleRouteLoop(gb, 1, start, goal)

\* ------------------------------------------------------------ PathFinder
\* the count that compares every segment with the first segment's route
CountAgainstFirst(path) ==
    IF path = <<>> THEN 0
    ELSE Cardinality({i \in 2..Len(path) : path[i].route # path[1].route})

\* count_transfers
RECURSIVE CountLoop(_, _, _)
CountLoop(path, i, current_route) ==
    IF i > Len(path) THEN 0
    ELSE IF path[i].route # current_route
         THEN 1 + CountLoop(path, i + 1, path[i].route)
         ELSE CountLoop(path, i + 1, current_route)

count_transfers(path) ==
    IF path = <<>> THEN 0 ELSE CountLoop(path, 2, path[1].route)

\* the path built with "for i in range(len(stops))", one edge short of the goal
SingleRoutePathShort(single_route) ==
    [i \in 1..(Len(single_route.stops_between) - 2) |->
        [from |-> single_route.stops_between[i], to |-> single_route.stops_between[i + 1],
         route |-> single_route.route_id, pattern |-> single_route.pattern]]

\* find_optimal_path, PRIORITY 1: the path built from the single route
SingleRoutePath(single_route) ==
    [i \in 1..(Len(single_route.stops_between) - 1) |->
        [from |-> single_route.stops_between[i], to |-> single_route.stops_between[i + 1],
         route |-> single_route.route_id, pattern |-> single_route.pattern]]

\* a < b on strings cut at '_' (pieces are single characters)
RECURSIVE StrLt(_, _)
StrLt(a, b) ==
    IF b = <<>> THEN FALSE
    ELSE IF a = <<>> THEN TRUE
    ELSE IF Head(a) # Head(b) THEN Head(a) < Head(b)
    ELSE StrLt(Tail(a), Tail(b))

\* a < b on Optional[str]: "lt", "ge", or "err" for the TypeError None raises
OptStrLt(a, b) ==
    IF a = NoneStr \/ b = NoneStr THEN "err"
    ELSE IF StrLt(a, b) THEN "lt" ELSE "ge"

\* a < b on two paths (lists of dicts): lists compare their first differing
\* elements, and dict < dict raises TypeError
ListOfDictLt(a, b) ==
    IF \E i \in 1..Min(Len(a), Len(b)) : a[i] # b[i] THEN "err"
    ELSE IF Len(a) < Len(b) THEN "lt" ELSE "ge"

\* a < b on two queue entries (transfers, stops, current_stop, path,
\* current_route, current_pattern): tuples compare their first differing fields
EntryLt(a, b) ==
    IF a.transfers # b.transfers THEN (IF a.transfers < b.transfers THEN "lt" ELSE "ge")
    ELSE IF a.stops # b.stops THEN (IF a.stops < b.stops THEN "lt" ELSE "ge")
    ELSE IF a.current # b.current THEN (IF a.current < b.current THEN "lt" ELSE "ge")
    ELSE IF a.path # b.path THEN ListOfDictLt(a.path, b.path)
    ELSE IF a.current_route # b.current_route THEN OptStrLt(a.current_route, b.current_route)
    ELSE IF a.current_pattern # b.current_pattern
         THEN OptStrLt(a.current_pattern, b.current_pattern)
    ELSE "ge"

\* heapq._siftdown on positions counted from 0: [heap, err]
RECURSIVE SiftDownLoop(_, _, _, _)
SiftDownLoop(heap, newitem, startpos, pos) ==
    IF pos > startpos
    THEN LET parentpos == (pos - 1) \div 2
             parent == heap[parentpos + 1]
             c == EntryLt(newitem, parent)
         IN IF c = "err" THEN [heap |-> heap, err |-> TRUE]
            ELSE IF c = "lt"
                 THEN SiftDownLoop([heap EXCEPT ![pos + 1] = parent], newitem, startpos, parentpos)
                 ELSE [heap |-> [heap EXCEPT ![pos + 1] = newitem], err |-> FALSE]
    ELSE [heap |-> [heap EXCEPT ![pos + 1] = newitem], err |-> FALSE]

_siftdown(heap, startpos, pos) == SiftDownLoop(heap, heap[pos + 1], startpos, pos)

\* heapq._siftup
RECURSIVE SiftUpLoop(_, _, _, _)
SiftUpLoop(heap, newitem, startpos, pos) ==
    LET endpos == Len(heap)
        childpos == 2 * pos + 1
        rightpos == childpos + 1
    IN IF childpos < endpos
       THEN LET c == IF rightpos < endpos
                     THEN EntryLt(heap[childpos + 1], heap[rightpos + 1])
                     ELSE "lt"
                pick == IF c = "lt" THEN childpos ELSE rightpos
            IN IF c = "err" THEN [heap |-> heap, err |-> TRUE]
               ELSE SiftUpLoop([heap EXCEPT ![pos + 1] = heap[pick + 1]], newitem, startpos, pick)
       ELSE _siftdown([heap EXCEPT ![pos + 1] = newitem], startpos, pos)

\* heapq.heappush(pq, item)
heappush(heap, item) == _siftdown(Append(heap, item), 0, Len(heap))

\* heapq.heappop(pq) on a non-empty heap: [item, heap, err]
heappop(heap) ==
    LET lastelt == Last(heap)
        rest == SubSeq(heap, 1, Len(heap) - 1)
    IN IF rest = <<>> THEN [item |-> lastelt, heap |-> <<>>, err |-> FALSE]
       ELSE LET r == SiftUpLoop(rest, lastelt, 0, 0)
            IN [item |-> rest[1], heap |-> r.heap, err |-> r.err]

\* conn.get("pattern", conn["route"])
RouteKey(conn) == IF conn.pattern = NoneStr THEN conn.route ELSE conn.pattern

\* graph[stop]: the connections leaving stop, in list order
Outgoing(connections, stop) == SelectSeq(connections, LAMBDA conn : conn.from = stop)

\* the keys of connections_by_route in insertion order
RECURSIVE RouteKeysInOrder(_, _)
RouteKeysInOrder(conns, acc) ==
    IF conns = <<>> THEN acc
    ELSE RouteKeysInOrder(Tail(conns),
            IF \E i \in 1..Len(acc) : acc[i] = RouteKey(Head(conns)) THEN acc
            ELSE Append(acc, RouteKey(Head(conns))))

\* the queue entry with "new_path = [conn]", the path so far forgotten
NextEntryLosingPath(e, conn, transfers) ==
    [transfers |-> transfers, stops |-> e.stops + 1, current |-> conn.to,
     path |-> <<conn>>, current_route |-> conn.route,
     current_pattern |-> RouteKey(conn)]

\* the queue entry pushed for conn from the entry e
NextEntry(e, conn, transfers) ==
    [transfers |-> transfers, stops |-> e.stops + 1, current |-> conn.to,
     path |-> Append(e.path, conn), current_route |-> conn.route,
     current_pattern |-> RouteKey(conn)]

\* the entries one expansion pushes, in push order: first the connections on
\* the current pattern, then every other group with the transfer counted
RECURSIVE OtherRoutes(_, _, _)
OtherRoutes(e, keys, out) ==
    IF keys = <<>> THEN <<>>
    ELSE IF Head(keys) = e.current_pattern THEN OtherRoutes(e, Tail(keys), out)
    ELSE LET conns == SelectSeq(out, LAMBDA conn : RouteKey(conn) = Head(keys))
             new_transfers == e.transfers + (IF e.current_route # NoneStr THEN 1 ELSE 0)
         IN [i \in 1..Len(conns) |-> NextEntry(e, conns[i], new_transfers)]
            \o OtherRoutes(e, Tail(keys), out)

Pushes(e, connections) ==
    LET out == Outgoing(connections, e.current)
        keys == RouteKeysInOrder(out, <<>>)
        same == IF /\ e.current_pattern # NoneStr /\ e.current_pattern # <<>>
                   /\ \E i \in 1..Len(keys) : keys[i] = e.current_pattern
                THEN SelectSeq(out, LAMBDA conn : RouteKey(conn) = e.current_pattern)
                ELSE <<>>
    IN [i \in 1..Len(same) |-> NextEntry(e, same[i], e.transfers)]
       \o OtherRoutes(e, keys, out)

RECURSIVE PushAll(_, _)
PushAll(r, items) ==
    IF items = <<>> \/ r.err THEN r
    ELSE PushAll(heappush(r.heap, Head(items)), Tail(items))

\* the search state before the loop: pq, visited, best_solution
\* (status: "loop", "done" after the loop, "raised" on a TypeError)
BfsInit(start) ==
    [pq |-> <<[transfers |-> 0, stops |-> 0, current |-> start, path |-> <<>>,
               current_route |-> NoneStr, current_pattern |-> NoneStr]>>,
     visited |-> <<>>, best_solution |-> NonePath, status |-> "loop"]

\* one iteration of "while pq"
BfsStep(st, connections, goal) ==
    IF st.pq = <<>> THEN [st EXCEPT !.status = "done"]
    ELSE LET p == heappop(st.pq)
             e == p.item
             state == <<e.current, e.current_pattern>>
         IN IF p.err THEN [st EXCEPT !.status = "raised"]
            ELSE IF e.current = goal
            THEN \* best_transfers is the transfers of best_solution
                 LET best == IF ~st.best_solution.some
                                \/ e.transfers < st.best_solution.transfers
                             THEN [some |-> TRUE, path |-> e.path, transfers |-> e.transfers]
                             ELSE st.best_solution
                 IN [st EXCEPT !.pq = p.heap, !.best_solution = best,
                               !.status = IF e.transfers <= 1 THEN "done" ELSE "loop"]
            ELSE IF /\ DictHas(st.visited, state)
                    /\ LET prev == DictGet(st.visited, state)
                       IN \/ e.transfers > prev[1]
                          \/ e.transfers = prev[1] /\ e.stops >= prev[2]
            THEN [st EXCEPT !.pq = p.heap]
            ELSE LET r == PushAll([heap |-> p.heap, err |-> FALSE], Pushes(e, connections))
                 IN [st EXCEPT !.pq = r.heap,
                               !.visited = DictPut(@, state, <<e.transfers, e.stops>>),
                               !.status = IF r.err THEN "raised" ELSE "loop"]

\* what the function returns after the loop: "if best_solution: ... return None"
BfsReturn(st) ==
    IF st.best_solution.some /\ st.best_solution.path # <<>>
    THEN SomePath(st.best_solution.path)
    ELSE NonePath

\* a call's outcome: kind "returned" with the Optional path, or "raised"
Returned(optpath) == [kind |-> "returned", value |-> optpath]

Raised == [kind |-> "raised", value |-> NonePath]

RECURSIVE BfsRun(_, _, _)
BfsRun(st, connections, goal) ==
    IF st.status = "loop" THEN BfsRun(BfsStep(st, connections, goal), connections, goal)
    ELSE IF st.status = "raised" THEN Raised
    ELSE Returned(BfsReturn(st))

\* the early return of _bfs_with_transfer_penalty: "if start not in graph"
StartNotInGraph(connections, start) == Outgoing(connections, start) = <<>>

_bfs_with_transfer_penalty(connections, start, goal) ==
    IF StartNotInGraph(connections, start)
    THEN Returned(IF start = goal THEN SomePath(<<>>) ELSE NonePath)
    ELSE BfsRun(BfsInit(start), connections, goal)

\* find_optimal_path; attached: whether set_graph_builder has been called
find_optimal_path(gb, attached, connections, start, goal) ==
    LET single_route == can_reach_on_single_route(gb, start, goal)
    IN IF attached /\ single_route.some
       THEN Returned(SomePath(SingleRoutePath(single_route)))
       ELSE _bfs_with_transfer_penalty(connections, start, goal)

\* -------------------------------------------------------------- FOLEngine
\* at_predicates.sort(key=lambda x: x[1]): a stable sort by step
RECURSIVE InsertByStep(_, _)
InsertByStep(sorted, fact) ==
    IF sorted = <<>> THEN <<fact>>
    ELSE IF Last(sorted).step <= fact.step THEN Append(sorted, fact)
    ELSE Append(InsertByStep(SubSeq(sorted, 1, Len(sorted) - 1), fact), Last(sorted))

RECURSIVE SortByStep(_)
SortByStep(facts) ==
    IF facts = <<>> THEN <<>>
    ELSE InsertByStep(SortByStep(SubSeq(facts, 1, Len(facts) - 1)), Last(facts))

\* the first connection from from_stop to to_stop, as a list of 0 or 1 element
FirstConn(connections, from_stop, to_stop) ==
    LET hits == SelectSeq(connections, LAMBDA conn : conn.from = from_stop /\ conn.to = to_stop)
    IN IF hits = <<>> THEN <<>> ELSE <<Head(hits)>>

\* "Build path from consecutive stops" of extract_path_from_prover9_proof
RECURSIVE ProofPathLoop(_, _, _, _, _)
ProofPathLoop(at_predicates, i, connections, goal, path) ==
    IF i > Len(at_predicates) - 1 THEN path
    ELSE LET from_stop == at_predicates[i].stop
             to_stop == at_predicates[i + 1].stop
             path2 == path \o FirstConn(connections, from_stop, to_stop)
         IN IF to_stop = goal THEN path2
            ELSE ProofPathLoop(at_predicates, i + 1, connections, goal, path2)

\* extract_path_from_prover9_proof; the output is given by whether it holds
\* "THEOREM PROVED" and by its at(stop, step) matches in text order
extract_path_from_prover9_proof(prover9_output, connections, start, goal) ==
    IF ~prover9_output.proved \/ prover9_output.facts = <<>> THEN NonePath
    ELSE LET path == ProofPathLoop(SortByStep(prover9_output.facts), 1, connections, goal, <<>>)
         IN IF path # <<>> THEN SomePath(path) ELSE NonePath

\* the plain breadth-first search of extract_path_from_mace4:
\* queue of (current, path), visited
\* the neighbour loop that marks stops visited but never enqueues them
VisitNeighboursNoEnqueue(out, path, queue, visited) ==
    [queue |-> queue, visited |-> visited \cup {out[i].to : i \in 1..Len(out)}]

RECURSIVE VisitNeighbours(_, _, _, _)
VisitNeighbours(out, path, queue, visited) ==
    IF out = <<>> THEN [queue |-> queue, visited |-> visited]
    ELSE IF Head(out).to \notin visited
         THEN VisitNeighbours(Tail(out), path,
                              Append(queue, [current |-> Head(out).to,
                                             path |-> Append(path, Head(out))]),
                              visited \cup {Head(out).to})
         ELSE VisitNeighbours(Tail(out), path, queue, visited)

RECURSIVE PlainBfs(_, _, _, _)
PlainBfs(queue, visited, connections, goal) ==
    IF queue = <<>> THEN NonePath
    ELSE IF Head(queue).current = goal THEN SomePath(Head(queue).path)
    ELSE LET r == VisitNeighbours(Outgoing(connections, Head(queue).current),
                                  Head(queue).path, Tail(queue), visited)
         IN PlainBfs(r.queue, r.visited, connections, goal)

\* the path extract_path_from_mace4 builds from a direct route
RECURSIVE Mace4DirectPath(_, _, _)
Mace4DirectPath(stops, i, connections) ==
    IF i > Len(stops) - 1 THEN <<>>
    ELSE FirstConn(connections, stops[i], stops[i + 1]) \o Mace4DirectPath(stops, i + 1, connections)

\* the acceptance test of extract_path_from_mace4: it gives up when the output
\* holds neither "Exiting" nor, in any case, "model"
Mace4Confirms(mace4_output) == ~(~mace4_output.exiting /\ ~mace4_output.model)

\* extract_path_from_mace4; the output is given by its markers
extract_path_from_mace4(mace4_output, connections, start, goal, gb) ==
    IF ~Mace4Confirms(mace4_output) THEN NonePath
    ELSE LET direct == can_reach_on_single_route(gb, start, goal)
         IN IF direct.some
            THEN SomePath(Mace4DirectPath(direct.stops_between, 1, connections))
            ELSE PlainBfs(<<[current |-> start, path |-> <<>>]>>, {start}, connections, goal)

\* the file system the oracle calls write to: tmp holds the names of the
\* temporary files in existence, saved the prefixes of the files under fol_inputs/
\* (a saved file's timestamp and content hash are left out of its name)
NoFiles == [tmp |-> {}, saved |-> {}]

\* _write_fol_input: the path written (a fresh temporary name, or 0 for the file
\* under fol_inputs/) and the files after the write
_write_fol_input(files, prefix, save_input) ==
    IF save_input
    THEN [input_file |-> 0, files |-> [files EXCEPT !.saved = @ \cup {prefix}]]
    ELSE LET name == CHOOSE n \in 1..(Cardinality(files.tmp) + 1) :
                        n \notin files.tmp /\ \A m \in 1..(n - 1) : m \in files.tmp
         IN [input_file |-> name, files |-> [files EXCEPT !.tmp = @ \cup {name}]]

\* run_prover9 and run_mace4 on the file system: the input file written and the
\* files left when the call returns; os.unlink is reached only when
\* subprocess.run returned and save_input is off
OracleFiles(files, prefix, proc, save_input) ==
    LET w == _write_fol_input(files, prefix, save_input)
    IN IF proc.how = "completed" /\ ~save_input
       THEN [w EXCEPT !.files.tmp = @ \ {w.input_file}]
       ELSE w

\* run_prover9 without "except subprocess.TimeoutExpired": the timeout is caught
\* by "except Exception"
RunProver9GenericErrors(proc) ==
    IF proc.how = "completed"
    THEN [text |-> "stdout", proved |-> proc.proved, facts |-> proc.facts]
    ELSE IF proc.how = "missing"
    THEN [text |-> "ERROR: Prover9 not found", proved |-> FALSE, facts |-> <<>>]
    ELSE [text |-> "ERROR", proved |-> FALSE, facts |-> <<>>]

\* what run_prover9 returns for each way the subprocess can end; a returned
\* string is given by the markers the caller reads in it
run_prover9(proc) ==
    IF proc.how = "completed"
    THEN [text |-> "stdout", proved |-> proc.proved, facts |-> proc.facts]
    ELSE IF proc.how = "timeout" THEN [text |-> "TIMEOUT", proved |-> FALSE, facts |-> <<>>]
    ELSE IF proc.how = "missing"
    THEN [text |-> "ERROR: Prover9 not found", proved |-> FALSE, facts |-> <<>>]
    ELSE [text |-> "ERROR", proved |-> FALSE, facts |-> <<>>]

\* what run_mace4 returns: exiting is "Exiting" in output, exiting_with is
\* "Exiting with" in output, model is "model" in output.lower()
run_mace4(proc) ==
    IF proc.how = "completed"
    THEN [text |-> "stdout", exiting |-> proc.exiting, exiting_with |-> proc.exiting_with,
          model |-> proc.model]
    ELSE [text |-> IF proc.how = "timeout" THEN "TIMEOUT"
                   ELSE IF proc.how = "missing" THEN "ERROR: Mace4 not found" ELSE "ERROR",
          exiting |-> FALSE, exiting_with |-> FALSE, model |-> FALSE]

\* ------------------------------------------------------ TicketingService
\* ticket_price, in tenths of a RON (3.5 RON)
ticket_price == 35

\* ticket_validity, in minutes
ticket_validity == 45

\* the computation with "total_duration_minutes // ticket_validity + 1"
TicketsPerStartedWindow(total_duration_minutes) ==
    IF total_duration_minutes <= 0 THEN <<1, ticket_price>>
    ELSE LET tickets_needed == (total_duration_minutes \div ticket_validity) + 1
         IN <<tickets_needed, tickets_needed * ticket_price>>

\* calculate_tickets: (tickets_needed, total_cost in tenths of a RON)
calculate_tickets(total_duration_minutes) ==
    IF total_duration_minutes <= 0 THEN <<1, ticket_price>>
    ELSE LET ceiling == (total_duration_minutes + ticket_validity - 1) \div ticket_validity
             tickets_needed == IF ceiling > 1 THEN ceiling ELSE 1
         IN <<tickets_needed, tickets_needed * ticket_price>>

\* ---------------------------------------------------------------- main.py
\* plan_trip, "Build path" of the direct route: per consecutive pair the first
\* connection on the route
RECURSIVE DirectPath(_, _, _, _)
DirectPath(stops, i, route_id, connections) ==
    IF i > Len(stops) - 1 THEN <<>>
    ELSE LET hits == SelectSeq(connections,
                        LAMBDA conn : /\ conn.from = stops[i] /\ conn.to = stops[i + 1]
                                      /\ conn.route = route_id)
         IN (IF hits = <<>> THEN <<>> ELSE <<Head(hits)>>)
            \o DirectPath(stops, i + 1, route_id, connections)

\* stop = graph_builder.stops.get(id, {}), then
\* stop.get("stop_name", stop.get("name", "Unknown")); "Unknown" is written <<-1>>
StopDisplayName(gb, stop_id) ==
    IF DictHas(gb.stops, stop_id) THEN GetStopName(DictGet(gb.stops, stop_id), <<-1>>)
    ELSE <<-1>>

\* plan_trip, "Build route segments"
RouteSegments(gb, path) ==
    [i \in 1..Len(path) |->
        [from_stop |-> StopDisplayName(gb, path[i].from),
         to_stop |-> StopDisplayName(gb, path[i].to),
         route_id |-> path[i].route]]

\* the TripResponse of plan_trip, or the HTTP error it raises
TripResponse(gb, optpath, proof_method) ==
    IF ~optpath.some \/ optpath.path = <<>>
    THEN [status |-> "no_path", success |-> FALSE, route |-> <<>>, total_transfers |-> 0,
          proof_method |-> proof_method]
    ELSE [status |-> "ok", success |-> TRUE, route |-> RouteSegments(gb, optpath.path),
          total_transfers |-> count_transfers(optpath.path), proof_method |-> proof_method]

HTTPError(code) ==
    [status |-> code, success |-> FALSE, route |-> <<>>, total_transfers |-> 0,
     proof_method |-> "None"]

\* the checks without "if start_stop_id == end_stop_id"
ValidateNoSameStop(start_id, end_id) ==
    IF start_id = 0 THEN "404"
    ELSE IF end_id = 0 THEN "404"
    ELSE "ok"

\* the checks without "if not end_stop_id"
ValidateNoEndCheck(start_id, end_id) ==
    IF start_id = 0 THEN "404"
    ELSE IF start_id = end_id THEN "400"
    ELSE "ok"

\* plan_trip's checks of the resolved ids: the HTTP error raised, or "ok"
Validate(start_id, end_id) ==
    IF start_id = 0 THEN "404"
    ELSE IF end_id = 0 THEN "404"
    ELSE IF start_id = end_id THEN "400"
    ELSE "ok"

NoResponse ==
    [status |-> "pending", success |-> FALSE, route |-> <<>>, total_transfers |-> 0,
     proof_method |-> "None"]

\* ------------------------------------------------------------------ feeds
\* stop names: "A", "ab", "1 " (the id of stop 1 and a blank), "b ", then "c<k>"
StopName(k) ==
    CASE k = 1 -> <<21>>
      [] k = 2 -> <<11, 12>>
      [] k = 3 -> <<1, 0>>
      [] k = 4 -> <<12, 0>>
      [] OTHER -> <<13, k>>

StopFeed == [k \in 1..NStops |-> [stop_id |-> k, stop_name |-> StopName(k)]]

RouteFeed == <<[route_id |-> <<1>>], [route_id |-> <<2>>]>>

\* a shape id, the stops along the shape, and the route of the trip that uses it:
\* two directions of route 1, two shapes of route 2, a shape id without '_', a
\* second shape of route 1 ending in _0, a third shape of route 1 ending in _1, a
\* trip of a route that is not in the routes feed; a stop past NStops is in no
\* stops feed and is matched to no shape
ShapeTripCatalog ==
    { [sid |-> <<1, 0>>, stops |-> <<1, 2, 3>>, route_id |-> <<1>>],
      [sid |-> <<1, 1>>, stops |-> <<3, 2, 1>>, route_id |-> <<1>>],
      [sid |-> <<2, 0>>, stops |-> <<1, 2>>, route_id |-> <<2>>],
      [sid |-> <<2, 1>>, stops |-> <<2, 4>>, route_id |-> <<2>>],
      [sid |-> <<7>>, stops |-> <<2, 3>>, route_id |-> <<2>>],
      [sid |-> <<8, 0>>, stops |-> <<1, 3, 4>>, route_id |-> <<1>>],
      [sid |-> <<9, 1>>, stops |-> <<1, 2>>, route_id |-> <<1>>],
      [sid |-> <<3, 0>>, stops |-> <<1, 4>>, route_id |-> <<3>>] }

\* trips of a feed without shapes, with their stop ids in stop_sequence order
TripCatalog ==
    { [route_id |-> <<1>>, shape_id |-> <<>>, stop_times |-> <<1, 2, 3>>],
      [route_id |-> <<2>>, shape_id |-> <<>>, stop_times |-> <<1, 2>>],
      [route_id |-> <<2>>, shape_id |-> <<>>, stop_times |-> <<2, 3, 4>>],
      [route_id |-> <<1>>, shape_id |-> <<>>, stop_times |-> <<3, 1>>] }

ShapeFeeds ==
    { [stops |-> StopFeed, routes |-> RouteFeed,
       shapes |-> [i \in 1..Len(f) |-> [sid |-> f[i].sid, stops |-> f[i].stops]],
       trips |-> [i \in 1..Len(f) |->
                    [route_id |-> f[i].route_id, shape_id |-> f[i].sid, stop_times |-> <<>>]]] :
      f \in {g \in SeqsUpTo(ShapeTripCatalog, MaxShapes) :
                \A i, j \in 1..Len(g) : i # j => g[i].sid # g[j].sid} }

TripFeeds ==
    { [stops |-> StopFeed, routes |-> RouteFeed, shapes |-> <<>>, trips |-> t] :
      t \in SeqsUpTo(TripCatalog, MaxTrips) }

\* feeds with absent sections: no trips at all (with and without shape points),
\* and a trip that has neither stop times nor an indexed shape
AbsentFeeds ==
    { [stops |-> StopFeed, routes |-> RouteFeed, shapes |-> sh, trips |-> <<>>] :
      sh \in {<<>>, <<[sid |-> <<1, 0>>, stops |-> <<1, 2, 3>>]>>} }
    \cup { [stops |-> StopFeed, routes |-> RouteFeed, shapes |-> <<>>,
            trips |-> <<[route_id |-> <<1>>, shape_id |-> <<1, 0>>, stop_times |-> <<>>]>>] }

\* the feed of test_build_graph: records keyed by "id" and "name", one route
\* "35" that lists its stops inline, no trips, stop times or shapes
InlineFeeds ==
    { [stops |-> [k \in 1..NStops |-> [id |-> k, name |-> StopName(k)]],
       routes |-> <<[id |-> <<1>>, short_name |-> <<3, 5>>,
                     stops |-> [k \in 1..NStops |-> [id |-> k]]]>>,
       shapes |-> <<>>, trips |-> <<>>] }

Feeds == ShapeFeeds \cup TripFeeds \cup AbsentFeeds \cup InlineFeeds

\* feeds where one trip follows the shape 1_0 and a second trip has stop times
\* only: it names no shape, or a shape that is not in the shapes feed
MixedFeeds ==
    { [stops |-> StopFeed, routes |-> RouteFeed,
       shapes |-> <<[sid |-> <<1, 0>>, stops |-> <<1, 2, 3>>]>>,
       trips |-> <<[route_id |-> <<1>>, shape_id |-> <<1, 0>>, stop_times |-> <<>>], t>>] :
      t \in TripCatalog \cup {[route_id |-> <<2>>, shape_id |-> <<4, 0>>,
                                 stop_times |-> <<3, 1>>]} }

\* a feed where route 1 calls at 1-2-3 and route 2 runs 1-3 without a call at 2
ExpressFeed ==
    [stops |-> [k \in 1..3 |-> [stop_id |-> k, stop_name |-> StopName(k)]],
     routes |-> RouteFeed,
     shapes |-> <<[sid |-> <<5, 0>>, stops |-> <<1, 2, 3>>],
                  [sid |-> <<6, 0>>, stops |-> <<1, 3>>]>>,
     trips |-> <<[route_id |-> <<1>>, shape_id |-> <<5, 0>>, stop_times |-> <<>>],
                 [route_id |-> <<2>>, shape_id |-> <<6, 0>>, stop_times |-> <<>>]>>]

\* a feed of four stops where route 1 runs 1-2 in direction 0 and 2-3-4 in
\* direction 1, and route 2 runs 1-3: stop 4 is reached from stop 1 on route 1
\* alone over three edges, or over two edges with a change from route 2
DetourFeed ==
    [stops |-> [k \in 1..4 |-> [stop_id |-> k, stop_name |-> StopName(k)]],
     routes |-> RouteFeed,
     shapes |-> <<[sid |-> <<5, 0>>, stops |-> <<1, 2>>],
                  [sid |-> <<5, 1>>, stops |-> <<2, 3, 4>>],
                  [sid |-> <<6, 0>>, stops |-> <<1, 3>>]>>,
     trips |-> <<[route_id |-> <<1>>, shape_id |-> <<5, 0>>, stop_times |-> <<>>],
                 [route_id |-> <<1>>, shape_id |-> <<5, 1>>, stop_times |-> <<>>],
                 [route_id |-> <<2>>, shape_id |-> <<6, 0>>, stop_times |-> <<>>]>>]

\* the identifiers of a request: the stop ids, an unknown id "9", the empty
\* string, a blank, the names "AB" and "b", and "1 " (an id followed by a blank)
Identifiers ==
    {IdStr(k) : k \in 1..NStops} \cup {<<9>>, <<>>, <<0>>, <<21, 22>>, <<12>>, <<1, 0>>}

\* the ways a Prover9 run can end
FactSeqs == SeqsUpTo([stop : 1..NStops, step : 0..1], MaxFacts)

Prover9Runs ==
    {[how |-> "completed", proved |-> TRUE, facts |-> f] : f \in FactSeqs}
    \cup {[how |-> h, proved |-> FALSE, facts |-> <<>>] :
            h \in {"completed", "timeout", "missing", "failed"}}

\* the ways a Mace4 run can end ("Exiting with" in a text implies "Exiting")
Mace4Runs ==
    {r \in [how : {"completed"}, exiting : BOOLEAN, exiting_with : BOOLEAN, model : BOOLEAN] :
        r.exiting_with => r.exiting}
    \cup {[how |-> h, exiting |-> FALSE, exiting_with |-> FALSE, model |-> FALSE] :
            h \in {"timeout", "missing", "failed"}}

\* ------------------------------------------------------------------ state
VARIABLES
    gb,             \* the global GraphBuilder
    attached,       \* path_finder.graph_builder is set
    pc,             \* where plan_trip stands: "down" before startup, "idle" between requests
    start_stop_id,  \* plan_trip's locals
    end_stop_id,
    path,
    proof_method,
    stages,         \* the calls the current request has made, in order
    response,       \* what plan_trip returned or raised
    pf,             \* a direct call of PathFinder.find_optimal_path
    files,          \* the files the oracle calls have written and not removed
    call,           \* a direct call of another service function
    other           \* the locals of a second request thread while it does not run

vars == <<gb, attached, pc, start_stop_id, end_stop_id, path, proof_method, stages, response,
          pf, files, call, other>>

reqvars == <<pc, start_stop_id, end_stop_id, path, proof_method, stages, response>>

NoCall == [op |-> "none", input |-> 0, result |-> 0]

\* a worker thread that waits for a request
IdleThread ==
    [pc |-> "idle", start_stop_id |-> 0, end_stop_id |-> 0, path |-> NonePath,
     proof_method |-> "None", stages |-> <<>>, response |-> NoResponse]

PfIdle ==
    [phase |-> "idle", start |-> 0, goal |-> 0, single_route |-> NoRoute,
     st |-> BfsInit(0), result |-> Raised]

Init ==
    /\ gb = NewBuilder
    /\ attached = FALSE
    /\ pc = "down"
    /\ start_stop_id = 0
    /\ end_stop_id = 0
    /\ path = NonePath
    /\ proof_method = "None"
    /\ stages = <<>>
    /\ response = NoResponse
    /\ pf = PfIdle
    /\ files = NoFiles
    /\ call = NoCall
    /\ other = IdleThread

\* lifespan: fetch the feed, build the graph, attach it to the path finder
Lifespan ==
    /\ pc = "down"
    /\ \E feed \in Feeds : gb' = build_graph(gb, feed)
    /\ attached' = TRUE
    /\ pc' = "idle"
    /\ UNCHANGED <<start_stop_id, end_stop_id, path, proof_method, stages, response, pf,
                   files, call, other>>

\* plan_trip, "Validate and resolve stop names/IDs"
Resolve ==
    /\ pc = "idle"
    /\ \E start_stop \in Identifiers, end_stop \in Identifiers :
        LET s == resolve_stop(gb, start_stop)
            e == resolve_stop(gb, end_stop)
        IN /\ start_stop_id' = s
           /\ end_stop_id' = e
           /\ IF Validate(s, e) # "ok"
              THEN response' = HTTPError(Validate(s, e)) /\ pc' = "done"
              ELSE response' = NoResponse /\ pc' = "direct"
    /\ stages' = <<"resolve">>
    /\ path' = NonePath
    /\ proof_method' = "None"
    /\ UNCHANGED <<gb, attached, pf, files, call, other>>

\* the direct-route check that hands over to the deterministic search first
DirectRouteCheckThenSearch ==
    /\ pc = "direct"
    /\ LET direct_route == can_reach_on_single_route(gb, start_stop_id, end_stop_id)
       IN IF direct_route.some
          THEN /\ proof_method' = "Direct Route - No FOL needed"
               /\ path' = SomePath(DirectPath(direct_route.stops_between, 1,
                                              direct_route.route_id, gb.connections))
               /\ pc' = "respond"
          ELSE /\ pc' = "search"
               /\ UNCHANGED <<path, proof_method>>
    /\ stages' = Append(stages, "direct")
    /\ UNCHANGED <<gb, attached, start_stop_id, end_stop_id, response, pf, files, call, other>>

\* plan_trip, "Check if direct route exists first"
DirectRouteCheck ==
    /\ pc = "direct"
    /\ LET direct_route == can_reach_on_single_route(gb, start_stop_id, end_stop_id)
       IN IF direct_route.some
          THEN /\ proof_method' = "Direct Route - No FOL needed"  \* less its "(route_name)"
               /\ path' = SomePath(DirectPath(direct_route.stops_between, 1,
                                              direct_route.route_id, gb.connections))
               /\ pc' = "respond"
          ELSE /\ pc' = "prover9"
               /\ UNCHANGED <<path, proof_method>>
    /\ stages' = Append(stages, "direct")
    /\ UNCHANGED <<gb, attached, start_stop_id, end_stop_id, response, pf, files, call, other>>

\* the first step that goes on to Mace4 whatever Prover9 answered
Prover9StageThenMace4 ==
    /\ pc = "prover9"
    /\ LET outcomes ==
            {LET prover9_output == run_prover9(proc)
             IN [proved |-> prover9_output.proved,
                 extracted |-> extract_path_from_prover9_proof(
                                   prover9_output, gb.connections, start_stop_id, end_stop_id),
                 files |-> OracleFiles(files, "prover9", proc, TRUE).files]
             : proc \in Prover9Runs}
       IN \E o \in outcomes :
           /\ files' = o.files
           /\ IF o.proved
              THEN /\ proof_method' = "Prover9 (Theorem Proved)"
                   /\ path' = o.extracted
                   /\ pc' = "mace4"
              ELSE /\ pc' = "mace4"
                   /\ UNCHANGED <<path, proof_method>>
    /\ stages' = Append(stages, "prover9")
    /\ UNCHANGED <<gb, attached, start_stop_id, end_stop_id, response, pf, call, other>>

\* plan_trip, "Step 1: Try Prover9": run it and, on a proof, extract the path;
\* runs that leave plan_trip with the same values are taken together
Prover9Stage ==
    /\ pc = "prover9"
    /\ LET outcomes ==
            {LET prover9_output == run_prover9(proc)
             IN [proved |-> prover9_output.proved,
                 extracted |-> extract_path_from_prover9_proof(
                                   prover9_output, gb.connections, start_stop_id, end_stop_id),
                 files |-> OracleFiles(files, "prover9", proc, TRUE).files]   \* save_input=True
             : proc \in Prover9Runs}
       IN \E o \in outcomes :
           /\ files' = o.files
           /\ IF o.proved
              THEN IF ~o.extracted.some \/ o.extracted.path = <<>>
                   THEN /\ proof_method' = "Prover9 (Proved) + BFS (Extraction)"
                        /\ path' = o.extracted
                        /\ pc' = "search"
                   ELSE /\ proof_method' = "Prover9 (Theorem Proved)"
                        /\ path' = o.extracted
                        /\ pc' = "respond"
              ELSE /\ pc' = "mace4"
                   /\ UNCHANGED <<path, proof_method>>
    /\ stages' = Append(stages, "prover9")
    /\ UNCHANGED <<gb, attached, start_stop_id, end_stop_id, response, pf, call, other>>

\* plan_trip's test of the Prover9 output: "THEOREM PROVED" in prover9_output
Prover9Proved(prover9_output) == prover9_output.proved

\* plan_trip's test of the Mace4 output:
\* "Exiting with" in mace4_output or "model" in mace4_output.lower()
Mace4ModelFound(mace4_output) == mace4_output.exiting_with \/ mace4_output.model

\* plan_trip, "Prover9 failed, try Mace4"
Mace4Stage ==
    /\ pc = "mace4"
    /\ \E proc \in Mace4Runs :
        LET mace4_output == run_mace4(proc)
            written == OracleFiles(files, "mace4", proc, TRUE)   \* save_input=True
        IN /\ files' = written.files
           /\ IF Mace4ModelFound(mace4_output)
              THEN /\ proof_method' = "Mace4 (Model Found)"
                   /\ path' = extract_path_from_mace4(mace4_output, gb.connections,
                                                      start_stop_id, end_stop_id, gb)
                   /\ stages' = stages \o <<"mace4", "mace4_search">>
                   /\ pc' = "respond"
              ELSE /\ proof_method' = "BFS (FOL methods failed)"
                   /\ stages' = Append(stages, "mace4")
                   /\ pc' = "search"
                   /\ UNCHANGED path
    /\ UNCHANGED <<gb, attached, start_stop_id, end_stop_id, response, pf, call, other>>

\* the list after a search that pops the connections off the list it was handed
ConnectionsConsumedBySearch(connections) == <<>>

\* the connection list find_optimal_path was handed, after the call: the list
\* is only iterated
ConnectionsAfterSearch(connections) == connections

\* plan_trip's call of path_finder.find_optimal_path; an exception it raises
\* leaves plan_trip as HTTP 500
Search ==
    /\ pc = "search"
    /\ LET r == find_optimal_path(gb, attached, gb.connections, start_stop_id, end_stop_id)
       IN IF r.kind = "raised"
          THEN response' = HTTPError("500") /\ pc' = "done" /\ UNCHANGED path
          ELSE path' = r.value /\ pc' = "respond" /\ UNCHANGED response
    /\ stages' = Append(stages, "search")
    /\ gb' = [gb EXCEPT !.connections = ConnectionsAfterSearch(@)]
    /\ UNCHANGED <<attached, start_stop_id, end_stop_id, proof_method, pf, files, call, other>>

\* plan_trip from "if not path" to the returned TripResponse
Respond ==
    /\ pc = "respond"
    /\ response' = TripResponse(gb, path, proof_method)
    /\ pc' = "done"
    /\ stages' = Append(stages, "respond")
    /\ UNCHANGED <<gb, attached, start_stop_id, end_stop_id, path, proof_method, pf,
                   files, call, other>>

\* the next request arrives
NextRequest ==
    /\ pc = "done"
    /\ pc' = "idle"
    /\ start_stop_id' = 0
    /\ end_stop_id' = 0
    /\ path' = NonePath
    /\ proof_method' = "None"
    /\ stages' = <<>>
    /\ response' = NoResponse
    /\ UNCHANGED <<gb, attached, pf, files, call, other>>

Next ==
    \/ Lifespan
    \/ Resolve
    \/ DirectRouteCheck
    \/ Prover9Stage
    \/ Mace4Stage
    \/ Search
    \/ Respond
    \/ NextRequest

Spec == Init /\ [][Next]_vars

\* --------------------------------------------- two requests served at once
\* the feeds of the two-thread runs: no trip, each single trip of route 1 with
\* stop times, and one shape with its trip
ConcFeeds ==
    {f \in TripFeeds : Len(f.trips) <= 1 /\ \A i \in 1..Len(f.trips) : f.trips[i].route_id = <<1>>}
    \cup {f \in ShapeFeeds : Len(f.shapes) = 1 /\ f.shapes[1].sid = <<1, 0>>}

\* the server after startup, two worker threads waiting
ConcInit ==
    /\ gb \in {build_graph(NewBuilder, feed) : feed \in ConcFeeds}
    /\ attached = TRUE
    /\ pc = "idle"
    /\ start_stop_id = 0
    /\ end_stop_id = 0
    /\ path = NonePath
    /\ proof_method = "None"
    /\ stages = <<>>
    /\ response = NoResponse
    /\ pf = PfIdle
    /\ files = NoFiles
    /\ call = NoCall
    /\ other = IdleThread

\* the interpreter switches to the other request thread
Switch ==
    /\ pc # "down"
    /\ other' = [pc |-> pc, start_stop_id |-> start_stop_id, end_stop_id |-> end_stop_id,
                 path |-> path, proof_method |-> proof_method, stages |-> stages,
                 response |-> response]
    /\ pc' = other.pc
    /\ start_stop_id' = other.start_stop_id
    /\ end_stop_id' = other.end_stop_id
    /\ path' = other.path
    /\ proof_method' = other.proof_method
    /\ stages' = other.stages
    /\ response' = other.response
    /\ UNCHANGED <<gb, attached, pf, files, call>>

ConcNext ==
    \/ Resolve
    \/ DirectRouteCheck
    \/ Prover9Stage
    \/ Mace4Stage
    \/ Search
    \/ Respond
    \/ NextRequest
    \/ Switch

SpecConc == ConcInit /\ [][ConcNext]_vars

\* ------------------------------------------- PathFinder called on its own
\* the graphs a build from a fresh builder gives
BuiltGraphs == {build_graph(NewBuilder, feed) : feed \in Feeds \cup {DetourFeed, ExpressFeed}}

\* the stops a caller may pass: the stops of the feeds and "9", which is in no feed
CallStops == 1..NStops \cup {4, 9}

PfInit ==
    /\ gb \in BuiltGraphs
    /\ attached \in BOOLEAN
    /\ pc = "down"
    /\ start_stop_id = 0
    /\ end_stop_id = 0
    /\ path = NonePath
    /\ proof_method = "None"
    /\ stages = <<>>
    /\ response = NoResponse
    /\ pf = PfIdle
    /\ files = NoFiles
    /\ call = NoCall
    /\ other = IdleThread

\* find_optimal_path up to the loop of _bfs_with_transfer_penalty
PfCall ==
    /\ pf.phase = "idle"
    /\ \E start \in CallStops, goal \in CallStops :
        LET single_route == IF attached THEN can_reach_on_single_route(gb, start, goal)
                            ELSE NoRoute
            called == [pf EXCEPT !.start = start, !.goal = goal, !.single_route = single_route]
        IN IF single_route.some
           THEN pf' = [called EXCEPT !.phase = "returned",
                                     !.result = Returned(SomePath(SingleRoutePath(single_route)))]
           ELSE IF StartNotInGraph(gb.connections, start)
           THEN pf' = [called EXCEPT !.phase = "returned",
                                     !.result = Returned(IF start = goal THEN SomePath(<<>>)
                                                         ELSE NonePath)]
           ELSE pf' = [called EXCEPT !.phase = "bfs", !.st = BfsInit(start)]
    /\ UNCHANGED <<gb, attached, reqvars, files, call, other>>

\* one iteration of the loop
PfLoop ==
    /\ pf.phase = "bfs"
    /\ pf.st.status = "loop"
    /\ pf' = [pf EXCEPT !.st = BfsStep(pf.st, gb.connections, pf.goal)]
    /\ UNCHANGED <<gb, attached, reqvars, files, call, other>>

\* the loop has ended: return, or leave with the TypeError
PfReturn ==
    /\ pf.phase = "bfs"
    /\ pf.st.status # "loop"
    /\ pf' = [pf EXCEPT !.phase = "returned",
                        !.result = IF pf.st.status = "raised" THEN Raised
                                   ELSE Returned(BfsReturn(pf.st))]
    /\ UNCHANGED <<gb, attached, reqvars, files, call, other>>

PfNext == PfCall \/ PfLoop \/ PfReturn

SpecPF == PfInit /\ [][PfNext]_vars

\* ----------------------------- count_transfers and calculate_tickets called
MaxPathLen == 3

MaxDuration == 95

\* the segments a caller may pass: a route and an estimated duration
Segments == [route : {<<1>>, <<2>>}, duration_minutes : {5, 7}]

TransferPaths == SeqsUpTo(Segments, MaxPathLen)

Durations == (0 - 2)..MaxDuration

FnInit ==
    /\ gb = NewBuilder
    /\ attached = FALSE
    /\ pc = "down"
    /\ start_stop_id = 0
    /\ end_stop_id = 0
    /\ path = NonePath
    /\ proof_method = "None"
    /\ stages = <<>>
    /\ response = NoResponse
    /\ pf = PfIdle
    /\ files = NoFiles
    /\ call = NoCall
    /\ other = IdleThread

CountTransfersCall ==
    /\ \E p \in TransferPaths :
        call' = [op |-> "count_transfers", input |-> p, result |-> count_transfers(p)]
    /\ UNCHANGED <<gb, attached, reqvars, pf, files, other>>

CalculateTicketsCall ==
    /\ \E total_duration_minutes \in Durations :
        call' = [op |-> "calculate_tickets", input |-> total_duration_minutes,
                 result |-> calculate_tickets(total_duration_minutes)]
    /\ UNCHANGED <<gb, attached, reqvars, pf, files, other>>

FnNext == CountTransfersCall \/ CalculateTicketsCall

SpecFn == FnInit /\ [][FnNext]_vars

\* ------------------------------------- GraphBuilder called on its own
GraphInit == FnInit

\* build_graph on a fresh builder
BuildGraphCall ==
    /\ gb = NewBuilder
    /\ \E feed \in Feeds \cup MixedFeeds :
        /\ gb' = build_graph(gb, feed)
        /\ call' = [op |-> "build_graph", input |-> feed, result |-> 0]
    /\ UNCHANGED <<attached, reqvars, pf, files, other>>

\* the snapshots of a second build: the feeds with at most one trip
RebuildFeeds == {feed \in Feeds : Len(feed.trips) <= 1}

\* build_graph called again on the builder that has just been built
RebuildGraphCall ==
    /\ call.op = "build_graph"
    /\ \E feed \in RebuildFeeds :
        /\ gb' = build_graph(gb, feed)
        /\ call' = [op |-> "rebuild_graph", input |-> feed, result |-> 0]
    /\ UNCHANGED <<attached, reqvars, pf, files, other>>

ResolveStopCall ==
    /\ \E stop_identifier \in Identifiers :
        call' = [op |-> "resolve_stop", input |-> stop_identifier,
                 result |-> resolve_stop(gb, stop_identifier)]
    /\ UNCHANGED <<gb, attached, reqvars, pf, files, other>>

GraphNext == BuildGraphCall \/ RebuildGraphCall \/ ResolveStopCall

SpecGraph == GraphInit /\ [][GraphNext]_vars

\* ------------------------------------------- FOLEngine called on its own
MaxTmpFiles == 2

OracleInit == FnInit

\* run_prover9(fol_input, save_input=...); markers: what plan_trip looks for in
\* the returned text
RunProver9Call ==
    /\ \E proc \in Prover9Runs, save_input \in BOOLEAN :
        LET written == OracleFiles(files, "prover9", proc, save_input)
        IN /\ save_input \/ Cardinality(files.tmp) < MaxTmpFiles
           /\ files' = written.files
           /\ call' = [op |-> "run_prover9",
                       input |-> [how |-> proc.how, save_input |-> save_input],
                       result |-> [output |-> run_prover9(proc).text,
                                   markers |-> [proved |-> run_prover9(proc).proved],
                                   input_file |-> written.input_file]]
    /\ UNCHANGED <<gb, attached, reqvars, pf, other>>

\* run_mace4(fol_input, save_input=...)
RunMace4Call ==
    /\ \E proc \in Mace4Runs, save_input \in BOOLEAN :
        LET written == OracleFiles(files, "mace4", proc, save_input)
        IN /\ save_input \/ Cardinality(files.tmp) < MaxTmpFiles
           /\ files' = written.files
           /\ call' = [op |-> "run_mace4",
                       input |-> [how |-> proc.how, save_input |-> save_input],
                       result |-> [output |-> run_mace4(proc).text,
                                   markers |-> [exiting |-> run_mace4(proc).exiting,
                                                exiting_with |-> run_mace4(proc).exiting_with,
                                                model |-> run_mace4(proc).model],
                                   input_file |-> written.input_file]]
    /\ UNCHANGED <<gb, attached, reqvars, pf, other>>

OracleNext == RunProver9Call \/ RunMace4Call

SpecOracle == OracleInit /\ [][OracleNext]_vars

\* ------------------------------- find_stops_along_shape called on its own
\* threshold_meters, in units of 10 m (20 m)
threshold_meters == 2

MaxShapePoints == 2

\* the inner loop that takes a later point at the same distance: "<=" for "<"
RECURSIVE ClosestLoopLastOnTie(_, _, _, _, _)
ClosestLoopLastOnTie(stop_id, shape_points, distance, i, best) ==
    IF i > Len(shape_points) THEN best
    ELSE IF ~shape_points[i].located
    THEN ClosestLoopLastOnTie(stop_id, shape_points, distance, i + 1, best)
    ELSE ClosestLoopLastOnTie(stop_id, shape_points, distance, i + 1,
            IF best.inf \/ distance[<<stop_id, i>>] <= best.min_distance
            THEN [inf |-> FALSE, min_distance |-> distance[<<stop_id, i>>],
                  closest_sequence |-> shape_points[i].sequence]
            ELSE best)

ClosestPointLastOnTie(stop_id, shape_points, distance) ==
    ClosestLoopLastOnTie(stop_id, shape_points, distance, 1,
                         [inf |-> TRUE, min_distance |-> 0, closest_sequence |-> -1])

\* "for point in shape_points": a point without coordinates is skipped, a
\* point strictly nearer than all before it becomes the closest
\* (inf: min_distance is still float('inf'))
RECURSIVE ClosestLoop(_, _, _, _, _)
ClosestLoop(stop_id, shape_points, distance, i, best) ==
    IF i > Len(shape_points) THEN best
    ELSE IF ~shape_points[i].located
    THEN ClosestLoop(stop_id, shape_points, distance, i + 1, best)
    ELSE ClosestLoop(stop_id, shape_points, distance, i + 1,
            IF best.inf \/ distance[<<stop_id, i>>] < best.min_distance
            THEN [inf |-> FALSE, min_distance |-> distance[<<stop_id, i>>],
                  closest_sequence |-> shape_points[i].sequence]
            ELSE best)

\* "Find closest point on shape to this stop": min_distance, closest_sequence
ClosestPoint(stop_id, shape_points, distance) ==
    ClosestLoop(stop_id, shape_points, distance, 1,
                [inf |-> TRUE, min_distance |-> 0, closest_sequence |-> -1])

\* "for stop_id, stop in self.stops.items()": stops_on_route before the sort
RECURSIVE StopsOnRouteLoop(_, _, _, _, _)
StopsOnRouteLoop(stops, k, shape_points, distance, threshold) ==
    IF k > Len(stops) THEN <<>>
    ELSE LET stop_id == stops[k].key
             closest == ClosestPoint(stop_id, shape_points, distance)
             rest == StopsOnRouteLoop(stops, k + 1, shape_points, distance, threshold)
         IN IF ~stops[k].val.located THEN rest          \* "stop_lat is None": continue
            ELSE IF ~closest.inf /\ closest.min_distance <= threshold
            THEN <<[stop_id |-> stop_id, sequence |-> closest.closest_sequence,
                    distance |-> closest.min_distance]>> \o rest
            ELSE rest

\* stops_on_route.sort(key=lambda x: x["sequence"]): a stable sort
RECURSIVE InsertBySequence(_, _)
InsertBySequence(sorted, s) ==
    IF sorted = <<>> THEN <<s>>
    ELSE IF Last(sorted).sequence <= s.sequence THEN Append(sorted, s)
    ELSE Append(InsertBySequence(SubSeq(sorted, 1, Len(sorted) - 1), s), Last(sorted))

RECURSIVE SortBySequence(_)
SortBySequence(stops_on_route) ==
    IF stops_on_route = <<>> THEN <<>>
    ELSE InsertBySequence(SortBySequence(SubSeq(stops_on_route, 1, Len(stops_on_route) - 1)),
                          Last(stops_on_route))

\* find_stops_along_shape on self.stops = stops, the haversine distance of a
\* stop to the i-th point given by the table distance[<<stop_id, i>>]
StopsAlongShape(stops, shape_points, distance, threshold) ==
    LET stops_on_route == SortBySequence(
            StopsOnRouteLoop(stops, 1, shape_points, distance, threshold))
    IN [i \in 1..Len(stops_on_route) |-> stops_on_route[i].stop_id]

\* self.stops of the calls: stops 2 and 1 with coordinates, stop 3 without, in
\* this order of insertion
ShapeStops ==
    <<[key |-> 2, val |-> [located |-> TRUE]], [key |-> 3, val |-> [located |-> FALSE]],
      [key |-> 1, val |-> [located |-> TRUE]]>>

\* shape points: a sequence number, and whether the point has coordinates
PointKinds ==
    {[sequence |-> 0, located |-> TRUE], [sequence |-> 1, located |-> TRUE],
     [sequence |-> 1, located |-> FALSE]}

\* distances in units of 10 m: within, at, and beyond the threshold
Distances == {1, 2, 3}

ShapeInit == FnInit

FindStopsAlongShapeCall ==
    /\ call = NoCall
    /\ \E shape_points \in SeqsUpTo(PointKinds, MaxShapePoints) :
        \E distance \in [{1, 2} \X (1..Len(shape_points)) -> Distances] :
            call' = [op |-> "find_stops_along_shape",
                     input |-> [shape_points |-> shape_points, distance |-> distance],
                     result |-> StopsAlongShape(ShapeStops, shape_points, distance,
                                                threshold_meters)]
    /\ UNCHANGED <<gb, attached, reqvars, pf, files, other>>

ShapeNext == FindStopsAlongShapeCall

SpecShape == ShapeInit /\ [][ShapeNext]_vars

\* ------------------------------------------------------------ properties
\* the stops reachable from the stops of S along connections
RECURSIVE ReachFrom(_, _)
ReachFrom(connections, S) ==
    LET T == S \cup {c.to : c \in {d \in Range(connections) : d.from \in S}}
    IN IF T = S THEN S ELSE ReachFrom(connections, T)

\* a directed chain of one or more connections leads from start to goal
ChainExists(connections, start, goal) ==
    goal \in ReachFrom(connections, {c.to : c \in {d \in Range(connections) : d.from = start}})

\* p is a non-empty chain of graph edges from start to goal
IsChain(p, connections, start, goal) ==
    /\ p # <<>>
    /\ p[1].from = start
    /\ Last(p).to = goal
    /\ \A i \in 1..(Len(p) - 1) : p[i].to = p[i + 1].from
    /\ \A i \in 1..Len(p) : \E c \in Range(connections) :
          c.from = p[i].from /\ c.to = p[i].to /\ c.route = p[i].route

\* the stored patterns that hold goal strictly after start
PatternsAfter(g, start, goal) ==
    {k \in 1..Len(g.route_patterns) :
        LET P == g.route_patterns[k].val
        IN \E i, j \in 1..Len(P) : i < j /\ P[i] = start /\ P[j] = goal}

\* p and the segments segs run along pattern k from start to goal, one edge per
\* consecutive pair of stops, each on the pattern's route
FollowsPattern(g, k, start, goal, p, segs) ==
    LET P == g.route_patterns[k].val
        key == g.route_patterns[k].key
        i == IndexOf(P, start)
        j == IndexOf(P, goal)
    IN /\ Len(p) = j - i
       /\ Len(segs) = j - i
       /\ \A m \in 1..(j - i) :
            /\ p[m].from = P[i + m - 1]
            /\ p[m].to = P[i + m]
            /\ Append(p[m].route, Last(key)) = key
            /\ segs[m].route_id = p[m].route
            /\ segs[m].from_stop = StopName(P[i + m - 1])
            /\ segs[m].to_stop = StopName(P[i + m])

OracleInvoked == "prover9" \in Range(stages) \/ "mace4" \in Range(stages)

\* the current request has resolved two different stops
Resolved == pc \notin {"down", "idle"} /\ start_stop_id # 0 /\ end_stop_id # 0
            /\ start_stop_id # end_stop_id

\* C1: when some stored pattern holds goal after start, plan_trip calls no
\* oracle, answers with the direct-route label, and its route is one segment per
\* consecutive pair of a pattern's stops from start to goal, all on that
\* pattern's route, with no transfer.
C1_DirectRouteWithoutOracle ==
    (Resolved /\ PatternsAfter(gb, start_stop_id, end_stop_id) # {}) =>
        /\ ~OracleInvoked
        /\ pc \in {"direct", "respond", "done"}
        /\ pc = "done" =>
            /\ response.status = "ok"
            /\ response.success
            /\ response.proof_method = "Direct Route - No FOL needed"
            /\ response.total_transfers = 0
            /\ \E k \in PatternsAfter(gb, start_stop_id, end_stop_id) :
                 FollowsPattern(gb, k, start_stop_id, end_stop_id, path.path, response.route)

C1_Witness ==
    /\ pc = "done"
    /\ response.status = "ok"
    /\ response.proof_method = "Direct Route - No FOL needed"
    /\ Len(response.route) = 2
    /\ Len(gb.route_patterns) = 2

\* C2: when a stored pattern holds g after s, can_reach_on_single_route gives a
\* result whose stops_between starts at s and ends at g, find_optimal_path
\* returns the path built from it, and count_transfers of that path is 0.
C2_SingleRouteZeroTransfers ==
    (pf.phase # "idle" /\ attached /\ PatternsAfter(gb, pf.start, pf.goal) # {}) =>
        /\ pf.single_route.some
        /\ Head(pf.single_route.stops_between) = pf.start
        /\ Last(pf.single_route.stops_between) = pf.goal
        /\ pf.phase = "returned"
        /\ pf.result.kind = "returned"
        /\ pf.result.value.some
        /\ Len(pf.result.value.path) = Len(pf.single_route.stops_between) - 1
        /\ Last(pf.result.value.path).to = pf.goal
        /\ count_transfers(pf.result.value.path) = 0

C2_Witness ==
    /\ pf.phase = "returned"
    /\ pf.single_route.some
    /\ Len(pf.single_route.stops_between) = 3
    /\ Len(gb.route_patterns) = 2
    /\ gb.route_patterns[1].key # pf.single_route.pattern

\* C3: for a stop s of the graph, find_optimal_path(connections, s, s) returns
\* the empty path (not None), with or without outgoing edges at s and with or
\* without a graph builder, and count_transfers of it is 0.
C3_SameStopEmptyPath ==
    (pf.phase = "returned" /\ pf.start = pf.goal /\ DictHas(gb.stops, pf.start)) =>
        /\ pf.result.kind = "returned"
        /\ pf.result.value.some
        /\ pf.result.value.path = <<>>
        /\ count_transfers(pf.result.value.path) = 0

\* C4 as claimed: a request whose two identifiers resolve to the same stop is
\* answered with success, an empty route and zero transfers, without an oracle.
C4_SameStopSucceeds ==
    (pc = "done" /\ start_stop_id # 0 /\ start_stop_id = end_stop_id) =>
        /\ response.success
        /\ response.route = <<>>
        /\ response.total_transfers = 0
        /\ ~OracleInvoked

\* C4 as amended: a request whose two identifiers resolve to the same stop is
\* refused with HTTP 400 (no success is reported), without an oracle.
C4_SameStopRejected ==
    (pc = "done" /\ start_stop_id # 0 /\ start_stop_id = end_stop_id) =>
        /\ response.status = "400"
        /\ ~response.success
        /\ ~OracleInvoked

C4_Witness ==
    /\ pc = "done"
    /\ start_stop_id # 0
    /\ start_stop_id = end_stop_id
    /\ response.status = "400"
    /\ gb.connections # <<>>

\* C5: a request with an unresolvable identifier, or with both identifiers
\* resolving to one stop, ends in the step that resolves them with HTTP 404 or
\* 400: no direct-route check, search or oracle call has run, and the graph is
\* unchanged.
C5_ValidationBeforeSearch ==
    [][(pc = "idle" /\ pc' # "idle"
        /\ (start_stop_id' = 0 \/ end_stop_id' = 0 \/ start_stop_id' = end_stop_id'))
       => /\ pc' = "done"
          /\ response'.status \in {"404", "400"}
          /\ (response'.status = "400") = (start_stop_id' # 0 /\ end_stop_id' # 0)
          /\ stages' = <<"resolve">>
          /\ gb' = gb]_vars

C5_Witness ==
    /\ pc = "done"
    /\ response.status = "404"
    /\ start_stop_id # 0
    /\ end_stop_id = 0
    /\ stages = <<"resolve">>
    /\ gb.connections # <<>>

\* C6: for start # goal, find_optimal_path returns None exactly when no chain
\* of connections leads from start to goal, and returns a path whenever one does.
C6_NotFoundIffNoChain ==
    (pf.phase = "returned" /\ pf.start # pf.goal) =>
        /\ pf.result.kind = "returned"
        /\ pf.result.value.some = ChainExists(gb.connections, pf.start, pf.goal)

\* C7: a path find_optimal_path returns for start # goal is a non-empty chain of
\* graph edges from start to goal, from the single-route shortcut or the search.
C7_ReturnedPathIsChain ==
    (pf.phase = "returned" /\ pf.start # pf.goal
     /\ pf.result.kind = "returned" /\ pf.result.value.some) =>
        IsChain(pf.result.value.path, gb.connections, pf.start, pf.goal)

C7_Witness ==
    /\ pf.phase = "returned"
    /\ pf.result.kind = "returned"
    /\ pf.result.value.some
    /\ ~pf.single_route.some
    /\ Len(pf.result.value.path) = 2
    /\ pf.st.visited # <<>>

\* C8: whatever Prover9 and Mace4 print, a successful result is a chain of graph
\* edges from the resolved start to the resolved goal.
C8_OracleNotLoadBearing ==
    (pc = "done" /\ response.success) =>
        IsChain(path.path, gb.connections, start_stop_id, end_stop_id)

\* C9: when Prover9 gives no proof and Mace4 no model, plan_trip completes with
\* the path find_optimal_path computes under the fallback label, and succeeds
\* whenever the goal is reachable.
C9_OracleFailureRecovered ==
    (pc = "done" /\ "mace4" \in Range(stages) /\ "mace4_search" \notin Range(stages)) =>
        LET r == find_optimal_path(gb, attached, gb.connections, start_stop_id, end_stop_id)
        IN /\ response.status \in {"ok", "no_path"}
           /\ r.kind = "returned"
           /\ path = r.value
           /\ response.proof_method = "BFS (FOL methods failed)"
           /\ ChainExists(gb.connections, start_stop_id, end_stop_id) => response.success

\* C10: for resolved stops start # goal and any oracle verdicts, plan_trip
\* answers "no path" only if no chain of connections leads from start to goal,
\* and only after a deterministic search has run.
C10_NoPathOnlyIfUnreachable ==
    (pc = "done" /\ response.status = "no_path") =>
        /\ ~ChainExists(gb.connections, start_stop_id, end_stop_id)
        /\ "search" \in Range(stages) \/ "mace4_search" \in Range(stages)

C10_Witness ==
    /\ pc = "done"
    /\ response.status = "no_path"
    /\ "mace4_search" \in Range(stages)
    /\ gb.connections # <<>>

\* the route identifiers of a path, in order
RouteSeq(p) == [i \in 1..Len(p) |-> p[i].route]

\* C11: count_transfers(path) is the number of positions after the first whose
\* route differs from the route just before; it is 0 for an empty or one-edge
\* path, and paths with the same sequence of routes (whatever their durations)
\* get the same count.
C11_CountsRouteChanges ==
    call.op = "count_transfers" =>
        /\ call.result = Cardinality({i \in 2..Len(call.input) :
                                        call.input[i].route # call.input[i - 1].route})
        /\ Len(call.input) <= 1 => call.result = 0
        /\ \A q \in TransferPaths :
              RouteSeq(q) = RouteSeq(call.input) => count_transfers(q) = call.result

C11_Witness ==
    /\ call.op = "count_transfers"
    /\ RouteSeq(call.input) = << <<1>>, <<2>>, <<1>> >>
    /\ call.input[1].duration_minutes # call.input[2].duration_minutes
    /\ call.result = 2

\* the least n with n * d >= x, for d > 0
CeilDiv(x, d) ==
    LET m == IF x >= 0 THEN x + 1 ELSE 1 - x
    IN CHOOSE n \in (0 - m)..m : n * d >= x /\ (n - 1) * d < x

\* C12: calculate_tickets(D) gives max(1, ceil(D / 45)) tickets (1 for D <= 0
\* and D = 45, 2 for D = 46 and D = 60) at 3.5 each.
C12_TicketsPerWindow ==
    call.op = "calculate_tickets" =>
        LET D == call.input
            expected == IF CeilDiv(D, 45) > 1 THEN CeilDiv(D, 45) ELSE 1
        IN /\ call.result[1] = expected
           /\ call.result[2] = call.result[1] * 35
           /\ D <= 0 => call.result[1] = 1
           /\ D = 45 => call.result[1] = 1
           /\ D \in {46, 60} => call.result[1] = 2

C12_Witness ==
    /\ call.op = "calculate_tickets"
    /\ call.input = 90
    /\ call.result = <<2, 70>>

\* C13: resolve_stop of an empty or whitespace-only identifier returns None on
\* every graph.
C13_BlankNeverMatches ==
    (call.op = "resolve_stop" /\ \A i \in 1..Len(call.input) : call.input[i] = 0) =>
        call.result = 0

\* the stops of g whose name, lower-cased and stripped, is n
StopsNamed(g, n) ==
    {g.stops[i].key : i \in {j \in 1..Len(g.stops) :
                                Strip(Lower(GetStopName(g.stops[j].val, <<>>))) = n}}

\* the stops of g with a name that holds n or is held by n
StopsNamedLike(g, n) ==
    {g.stops[i].key : i \in {j \in 1..Len(g.stops) :
        LET name == Strip(Lower(GetStopName(g.stops[j].val, <<>>)))
        IN name # <<>> /\ (Contains(n, name) \/ Contains(name, n))}}

\* C14: resolve_stop returns the stop whose id is the identifier if there is
\* one; otherwise a stop whose name equals the identifier (lower-cased and
\* trimmed) if there is one; otherwise a stop whose name contains the query or
\* is contained in it if there is one; otherwise None.
C14_ResolvePriority ==
    call.op = "resolve_stop" =>
        LET q == call.input
            n == Strip(Lower(q))
            ids == {k \in DictKeys(gb.stops) : IdStr(k) = q}
        IN IF ids # {} THEN call.result \in ids
           ELSE IF StopsNamed(gb, n) # {} THEN call.result \in StopsNamed(gb, n)
           ELSE IF StopsNamedLike(gb, n) # {} THEN call.result \in StopsNamedLike(gb, n)
           ELSE call.result = 0

C14_Witness ==
    /\ call.op = "resolve_stop"
    /\ call.input = <<1>>
    /\ call.result = 1
    /\ StopsNamed(gb, <<1>>) = {3}
    /\ gb.connections # <<>>

\* the feed has no trips, or only trips without stop times and no shape points
AbsentSections(feed) ==
    \/ feed.trips = <<>>
    \/ feed.shapes = <<>> /\ ~HasStopTimes(feed.trips)

C18_InlineStopsGiveEdges ==
    (call.op = "build_graph" /\ call.input \in InlineFeeds) =>
        LET inline == call.input.routes[1].stops
        IN /\ Len(gb.stops) = Len(call.input.stops)
           /\ Len(gb.routes) = Len(call.input.routes)
           /\ Len(gb.connections) = Len(inline) - 1
           /\ \A i \in 1..(Len(inline) - 1) : \E c \in Range(gb.connections) :
                 c.from = inline[i].id /\ c.to = inline[i + 1].id /\ c.route = <<1>>

\* C15: after run_prover9 or run_mace4 without save_input returns, the temporary
\* file it wrote no longer exists, however the solver run ended.
C15_TemporaryFileRemoved ==
    (call.op \in {"run_prover9", "run_mace4"} /\ ~call.input.save_input) =>
        call.result.input_file \notin files.tmp

\* C16: run_prover9 and run_mace4 return a verdict however the solver run ends:
\* its output when it completed, "TIMEOUT" when it exceeded the timeout, an
\* "ERROR" text when the binary is missing or the launch failed.
C16_OracleAlwaysReturnsVerdict ==
    call.op \in {"run_prover9", "run_mace4"} =>
        /\ call.input.how = "completed" => call.result.output = "stdout"
        /\ call.input.how = "timeout" => call.result.output = "TIMEOUT"
        /\ call.input.how = "missing" =>
              call.result.output = (IF call.op = "run_prover9"
                                    THEN "ERROR: Prover9 not found"
                                    ELSE "ERROR: Mace4 not found")
        /\ call.input.how = "failed" => call.result.output = "ERROR"

C16_Witness ==
    /\ call.op = "run_prover9"
    /\ call.input.how = "timeout"
    /\ call.result.output = "TIMEOUT"
    /\ files.tmp # {}

\* C19: no step of a planning request changes the shared graph (stops, routes,
\* connections, route patterns, adjacency index, name index) or detaches it
\* from the path finder, however the steps of two requests interleave.
C19_RequestsLeaveGraphUnchanged ==
    [][gb' = gb /\ attached' = attached]_vars

C19_Witness ==
    /\ pc = "search"
    /\ other.pc = "mace4"
    /\ other.start_stop_id # start_stop_id
    /\ "prover9" \in Range(stages)
    /\ gb.connections # <<>>

PairLt(a, b) == a[1] < b[1] \/ (a[1] = b[1] /\ a[2] < b[2])

\* no walk: a key above every walk's key
NoKey == <<1000, 1000>>

\* one round of relaxation of the keys (route changes, edges) of the walks from
\* start, by their last edge: key[i] is the least key of a walk ending with
\* connections[i]
RelaxKeys(connections, start, key) ==
    [i \in 1..Len(connections) |->
        LET c == connections[i]
            first == IF c.from = start THEN {<<0, 1>>} ELSE {}
            after == {<<key[j][1] + (IF connections[j].route # c.route THEN 1 ELSE 0),
                        key[j][2] + 1>> :
                      j \in {k \in 1..Len(connections) :
                                connections[k].to = c.from /\ key[k] # NoKey}}
            all == first \cup after \cup {key[i]}
        IN CHOOSE k \in all : \A m \in all : ~PairLt(m, k)]

RECURSIVE LeastKeys(_, _, _)
LeastKeys(connections, start, key) ==
    LET next == RelaxKeys(connections, start, key)
    IN IF next = key THEN key ELSE LeastKeys(connections, start, next)

\* the keys (count_transfers, length) of the best walks from start to goal
GoalKeys(connections, start, goal) ==
    LET key == LeastKeys(connections, start, [i \in 1..Len(connections) |-> NoKey])
    IN {key[i] : i \in {k \in 1..Len(connections) :
                          connections[k].to = goal /\ key[k] # NoKey}}

\* the search of find_optimal_path has returned a path for the current call
SearchReturnedPath ==
    /\ pf.phase = "returned"
    /\ ~pf.single_route.some
    /\ PatternsAfter(gb, pf.start, pf.goal) = {}
    /\ pf.result.kind = "returned"
    /\ pf.result.value.some
    /\ pf.result.value.path # <<>>

\* C21: when no stored pattern holds goal after start, the path the search
\* returns has the least (count_transfers, number of edges) of all walks from
\* start to goal: no walk has fewer route changes, and none with as few has
\* fewer edges.
C21_SearchPathLexMinimal ==
    SearchReturnedPath =>
        \A k \in GoalKeys(gb.connections, pf.start, pf.goal) :
            ~PairLt(k, <<count_transfers(pf.result.value.path), Len(pf.result.value.path)>>)

\* C22: when find_optimal_path returns the single-route path, the path has no
\* transfer and no stored pattern that holds goal after start gives fewer
\* edges from start to goal.
C22_SingleRoutePathShortest ==
    (pf.phase = "returned" /\ pf.single_route.some) =>
        /\ pf.result.kind = "returned"
        /\ pf.result.value.some
        /\ count_transfers(pf.result.value.path) = 0
        /\ \A k \in PatternsAfter(gb, pf.start, pf.goal) :
              LET P == gb.route_patterns[k].val
              IN IndexOf(P, pf.goal) - IndexOf(P, pf.start) >= Len(pf.result.value.path)

\* C23: after a build from shapes, every connection carries the key of a stored
\* route pattern, and that pattern holds the connection's origin immediately
\* followed by its destination; also when two shapes of a route end in the same
\* direction segment.
C23_ConnectionsLieOnPatterns ==
    (call.op = "build_graph" /\ call.input.trips # <<>> /\ gb.shapes # <<>>) =>
        \A c \in Range(gb.connections) :
            /\ DictHas(gb.route_patterns, c.pattern)
            /\ LET P == DictGet(gb.route_patterns, c.pattern)
               IN \E i \in 1..(Len(P) - 1) : P[i] = c.from /\ P[i + 1] = c.to

\* C24: after build_graph is called again on a built builder, the builder's
\* stops, routes, patterns, connections and adjacency are those of one build of
\* the last feed on a fresh builder, and no two connections share origin,
\* destination and pattern.
C24_RebuildReplacesGraph ==
    call.op = "rebuild_graph" =>
        /\ gb = build_graph(NewBuilder, call.input)
        /\ \A i, j \in 1..Len(gb.connections) :
              (/\ gb.connections[i].from = gb.connections[j].from
               /\ gb.connections[i].to = gb.connections[j].to
               /\ gb.connections[i].pattern = gb.connections[j].pattern) => i = j

\* the shape of the trip is unavailable: it names none, or one that the shapes
\* feed does not hold
ShapeUnavailable(feed, trip) ==
    \/ trip.shape_id = <<>>
    \/ \A i \in 1..Len(feed.shapes) : feed.shapes[i].sid # trip.shape_id

\* C25: after a build, for every trip of a known route whose shape is
\* unavailable the graph holds an edge of the trip's route for each two
\* consecutive stop times at known stops, also when other trips of the feed
\* have shapes; and every stored route pattern comes from a trip whose shape is
\* available.
C25_FallbackPerTrip ==
    (call.op = "build_graph" /\ call.input \notin InlineFeeds) =>
        LET feed == call.input
        IN /\ \A n \in 1..Len(feed.trips) :
                LET trip == feed.trips[n]
                    seq == trip.stop_times
                IN (DictHas(gb.routes, trip.route_id) /\ ShapeUnavailable(feed, trip)) =>
                      \A i \in 1..(Len(seq) - 1) :
                          (DictHas(gb.stops, seq[i]) /\ DictHas(gb.stops, seq[i + 1])) =>
                              \E c \in Range(gb.connections) :
                                  c.from = seq[i] /\ c.to = seq[i + 1] /\ c.route = trip.route_id
           /\ \A k \in 1..Len(gb.route_patterns) :
                \E n \in 1..Len(feed.trips) :
                    /\ ~ShapeUnavailable(feed, feed.trips[n])
                    /\ gb.route_patterns[k].key =
                          PatternKey(feed.trips[n].route_id,
                                     extract_direction_from_shape_id(feed.trips[n].shape_id)[2])

\* the positions of stage in the current request's history
StagePositions(stage) == {i \in 1..Len(stages) : stages[i] = stage}

\* C26: within a request Prover9 runs at most once and Mace4 at most once;
\* Mace4 runs only right after Prover9 has returned without a proof; every
\* oracle run has returned before the next step of the request; and nothing,
\* so no oracle, runs after the request has produced its response.
C26_OneOracleAtATime ==
    /\ Cardinality(StagePositions("prover9")) <= 1
    /\ Cardinality(StagePositions("mace4")) <= 1
    /\ \A i \in StagePositions("mace4") :
          /\ i > 1
          /\ stages[i - 1] = "prover9"
          /\ proof_method \notin {"Prover9 (Theorem Proved)",
                                   "Prover9 (Proved) + BFS (Extraction)"}
    /\ pc = "mace4" => (Last(stages) = "prover9" /\ proof_method = "None")
    /\ \A i \in StagePositions("respond") : i = Len(stages)
    /\ response.status # "pending" => pc = "done"

C26_Witness ==
    /\ pc = "done"
    /\ response.status = "ok"
    /\ StagePositions("prover9") = {3}
    /\ StagePositions("mace4") = {4}
    /\ response.proof_method = "Mace4 (Model Found)"

\* C27: a Prover9 output counts as a proof exactly when it holds "THEOREM
\* PROVED"; a Mace4 output counts as a found model exactly when it holds
\* "Exiting" or, in any case, "model"; a run that timed out or failed counts as
\* neither; and plan_trip's test of a Mace4 output agrees with the test of
\* extract_path_from_mace4 on every output.
C27_MarkersDecideVerdict ==
    /\ call.op = "run_prover9" =>
          /\ Prover9Proved(call.result.markers) = call.result.markers.proved
          /\ call.input.how # "completed" => ~Prover9Proved(call.result.markers)
    /\ call.op = "run_mace4" =>
          LET mace4_output == call.result.markers
          IN /\ Mace4ModelFound(mace4_output) = (mace4_output.exiting \/ mace4_output.model)
             /\ Mace4ModelFound(mace4_output) = Mace4Confirms(mace4_output)
             /\ call.input.how # "completed" => ~Mace4ModelFound(mace4_output)

\* the located points of the call that are nearest to stop s
NearestPoints(s) ==
    LET pts == call.input.shape_points
        d == call.input.distance
        located == {i \in 1..Len(pts) : pts[i].located}
    IN {i \in located : \A j \in located : d[<<s, i>>] <= d[<<s, j>>]}

\* the sequence number of the first point nearest to stop s
NearestSequence(s) ==
    LET N == NearestPoints(s)
    IN call.input.shape_points[CHOOSE i \in N : \A j \in N : i <= j].sequence

\* the position of stop s in self.stops
StopPosition(s) == CHOOSE k \in 1..Len(ShapeStops) : ShapeStops[k].key = s

\* C28: find_stops_along_shape returns exactly the stops with coordinates whose
\* least distance to a shape point is at most the threshold, each once, in the
\* order of the sequence numbers of their nearest points (the first such point
\* on a tie); stops with the same nearest sequence number come in their fixed
\* order in self.stops.
C28_StopsAlongShapeOrdered ==
    call.op = "find_stops_along_shape" =>
        LET res == call.result
            d == call.input.distance
            within == {s \in {ShapeStops[k].key : k \in {n \in 1..Len(ShapeStops) :
                                                           ShapeStops[n].val.located}} :
                          \E i \in NearestPoints(s) : d[<<s, i>>] <= threshold_meters}
        IN /\ Range(res) = within
           /\ Len(res) = Cardinality(within)
           /\ \A i, j \in 1..Len(res) : i < j =>
                 \/ NearestSequence(res[i]) < NearestSequence(res[j])
                 \/ /\ NearestSequence(res[i]) = NearestSequence(res[j])
                    /\ StopPosition(res[i]) < StopPosition(res[j])

\* both stops lie along the shape, stop 1 before stop 2 although self.stops
\* holds it after, and stop 1 is as near to a later point as to its first
C28_Witness ==
    /\ call.op = "find_stops_along_shape"
    /\ call.result = <<1, 2>>
    /\ Cardinality(NearestPoints(1)) = 2
    /\ NearestSequence(2) = 1

\* C29: the search ends normally on every connection list, with cycles and with
\* ties between queue entries: no call of find_optimal_path is left with an
\* error raised while the queue entries are ordered.
C29_SearchNeverRaises ==
    /\ pf.phase = "bfs" => pf.st.status # "raised"
    /\ pf.phase = "returned" => pf.result.kind = "returned"

\* C30: the transfer count of every queue entry of the search equals
\* count_transfers of the entry's path, also when consecutive edges lie on two
\* direction patterns of one route.
C30_TrackedTransfersMatchCount ==
    pf.phase = "bfs" =>
        \A i \in 1..Len(pf.st.pq) :
            pf.st.pq[i].transfers = count_transfers(pf.st.pq[i].path)

====
